---- MODULE Spec2Model ----
(***************************************************************************)
(* A model of the upload portal of src/webapp/main.py: a Flask application *)
(* whose handlers stage files in an object store, load them into a         *)
(* warehouse table, run a preview query and publish report views.          *)
(*                                                                         *)
(* The server handles one request at a time.  A handler is a sequence of   *)
(* steps, one per call to an external service; pc names the call that is   *)
(* next, stk the labels to return to.  Every external call may fail.       *)
(*                                                                         *)
(* Strings the code takes apart or puts together (file names, table        *)
(* names, object paths) are sequences of one-character strings.            *)
(*                                                                         *)
(* No handler reads a file under /tmp that it has not written itself in    *)
(* the same request, so tmp holds the files of the request in progress     *)
(* only and starts empty with every request.                               *)
(*                                                                         *)
(* Spec is the portal serving requests one at a time; LibSpec adds a       *)
(* direct call of load_to_bigquery; RaceSpec is two workers inside the     *)
(* create-if-absent helpers (ensure_dataset_exists of the portal,          *)
(* create_table_from_csv_if_not_exists of src/functions/run_analysis) at   *)
(* the same time.                                                          *)
(***************************************************************************)
EXTENDS Naturals, Integers, Sequences, FiniteSets, TLC

VARIABLES
    pc,             \* the step the handler in progress is at; "idle", "done"
    stk,            \* return labels of the helper calls in progress
    req,            \* the request in progress (or the last one)
    email,          \* g.user_email
    resp,           \* the response of the request, NoResp while in progress
    calls,          \* the effects of this request, in order (history)
    loc,            \* the handler's local variables
    datasetExists,  \* warehouse: the dataset BIGQUERY_DATASET exists
    tables,         \* warehouse: table id -> rows
    views,          \* warehouse: the views, a set of [id, sql]
    blobs,          \* object store: path -> content
    tmp,            \* local files written by this request: path -> content
    published,      \* pub/sub: the messages published, in order
    nreq,           \* number of requests received (bounded)
    hist,           \* history: table name -> what the last run_analysis calls left
    workers         \* the concurrent callers of the create-if-absent helpers

vars == <<pc, stk, req, email, resp, calls, loc, datasetExists, tables, views,
          blobs, tmp, published, nreq, hist, workers>>

----------------------------------------------------------------------------
(* Bounds *)

MaxRequests == 3    \* requests received in one behaviour
MaxRows == 11       \* data rows of the largest uploaded file

----------------------------------------------------------------------------
(* Strings *)

None == "None"

Lower(c) ==
    CASE c = "A" -> "a"
      [] c = "B" -> "b"
      [] c = "X" -> "x"
      [] OTHER -> c

\* str.lower()
lower(s) == [i \in 1..Len(s) |-> Lower(s[i])]

\* str.replace(old, new) for a one-character old
replace(s, old, new) == [i \in 1..Len(s) |-> IF s[i] = old THEN new ELSE s[i]]

\* str.rfind(c): the last index of c, 0 when absent
rfind(s, c) ==
    LET idx == {i \in 1..Len(s) : s[i] = c}
    IN  IF idx = {} THEN 0 ELSE CHOOSE i \in idx : \A j \in idx : j <= i

\* os.path.splitext(p): <<root, ext>>.  The extension starts at the last dot
\* that follows the last separator, unless only dots precede it.
splitext(p) ==
    LET sepIndex == rfind(p, "/")
        dotIndex == rfind(p, ".")
    IN  IF dotIndex > sepIndex
           /\ \E k \in (sepIndex + 1)..(dotIndex - 1) : p[k] # "."
        THEN <<SubSeq(p, 1, dotIndex - 1), SubSeq(p, dotIndex, Len(p))>>
        ELSE <<p, <<>>>>

\* The characters of [A-Za-z0-9_] that occur in the model's strings.
WordChars == {"a", "b", "c", "d", "e", "i", "j", "l", "n", "o", "q", "r", "s",
              "t", "u", "v", "x", "y", "z", "A", "B", "X", "0", "1", "_"}

\* VALID_TABLE_RE.match(table_name), for ^[A-Za-z0-9_]+$ : Python's $ also
\* matches just before a newline that ends the string.
VALID_TABLE_RE(s) ==
    LET body == IF Len(s) > 1 /\ s[Len(s)] = "\n" THEN SubSeq(s, 1, Len(s) - 1) ELSE s
    IN  /\ Len(body) > 0
        /\ \A i \in 1..Len(body) : body[i] \in WordChars

\* Literal strings of the code
S_uploads == <<"u", "p", "l", "o", "a", "d", "s", "/">>
S_results_dir == <<"a", "n", "a", "l", "y", "s", "i", "s", "_", "r", "e", "s", "u", "l", "t", "s", "/">>
S_tmp == <<"/", "t", "m", "p", "/">>
S_csv == <<".", "c", "s", "v">>
S_xls == <<".", "x", "l", "s">>
S_xlsx == <<".", "x", "l", "s", "x">>
S_json == <<".", "j", "s", "o", "n">>
S_parquet == <<".", "p", "a", "r", "q", "u", "e", "t">>
S_sql == <<".", "s", "q", "l">>
S_analysis == <<"_", "a", "n", "a", "l", "y", "s", "i", "s">>
S_results_csv == <<"_", "r", "e", "s", "u", "l", "t", "s">> \o S_csv
S_analysis_csv == S_analysis \o S_csv

PROJECT_ID == "data-analysis-webapp"
BUCKET_NAME == "data-analysis-upload-1000"
BIGQUERY_DATASET == "analysis_dataset"

\* f"{PROJECT_ID}.{BIGQUERY_DATASET}.{table_name}"
FQ(table_name) == <<PROJECT_ID, ".", BIGQUERY_DATASET, ".">> \o table_name

----------------------------------------------------------------------------
(* Maps with a growing domain: the object store, the warehouse, /tmp *)

EmptyMap == [k \in {} |-> 0]
Put(m, k, v) == [x \in (DOMAIN m) \cup {k} |-> IF x = k THEN v ELSE m[x]]
Has(m, k) == k \in DOMAIN m

RECURSIVE Flatten(_)
\* the concatenation of a sequence of strings
Flatten(ss) == IF ss = <<>> THEN <<>> ELSE Head(ss) \o Flatten(Tail(ss))

Take(s, n) == SubSeq(s, 1, IF n < Len(s) THEN n ELSE Len(s))
Reverse(s) == [i \in 1..Len(s) |-> s[Len(s) + 1 - i]]

----------------------------------------------------------------------------
(* File contents.  A content is an encoding and its lines; the first line  *)
(* of a CSV file or of an Excel sheet is the header line, written 0, and   *)
(* every data row is a positive number.                                    *)

HeaderLine == 0
NoContent == [enc |-> "none", lines |-> <<>>]
Content(enc, lines) == [enc |-> enc, lines |-> lines]

SmallRows == <<1, 2>>
BigRows == [i \in 1..MaxRows |-> i]

\* pd.read_excel(path).to_csv(csv_path, index=False): the sheet, header first,
\* written as CSV.
ExcelToCsv(c) == Content("csv", c.lines)

----------------------------------------------------------------------------
(* The report catalog *)

ReportIds == <<"dept_totals", "monthly_trend", "top_expense_types",
               "dept_month_matrix", "avg_monthly_by_dept">>
REPORTS == {ReportIds[i] : i \in 1..Len(ReportIds)}
Placeholder == <<"{table_fq}">>

\* REPORTS[rid]["sql"]: a template with one {table_fq}; the text around the
\* placeholder is kept as two opaque pieces.
ReportSql(rid) == << <<"SELECT", rid, "FROM">>, Placeholder, <<"GROUP BY", rid>> >>

\* template.replace("{table_fq}", table_fq)
MutNoSubstitute(template, table_fq) == Flatten(template)
SubstituteTable(template, table_fq) ==
    Flatten([i \in 1..Len(template) |->
                IF template[i] = Placeholder THEN table_fq ELSE template[i]])

\* f"{table_name}__{rid}_v"
ViewName(table_name, rid) == table_name \o <<"_", "_", rid, "_", "v">>

----------------------------------------------------------------------------
(* Requests *)

IapPrefix == <<"accounts.google.com", ":">>
H_missing == <<>>
H_good == IapPrefix \o <<"alice@example.com">>
H_noemail == IapPrefix
H_other == <<"securetoken.google.com", ":", "mallory@example.com">>
BadHeaders == {H_missing, H_other, H_noemail}

\* raw.startswith("accounts.google.com:")
startswith(raw, prefix) == Len(raw) >= Len(prefix) /\ SubSeq(raw, 1, Len(prefix)) = prefix

NoEmail == [isNone |-> TRUE, val |-> <<>>]

\* read_iap_identity: g.user_email from the header X-Goog-Authenticated-User-Email
read_iap_identity(raw) ==
    IF startswith(raw, IapPrefix)
    THEN [isNone |-> FALSE, val |-> SubSeq(raw, Len(IapPrefix) + 1, Len(raw))]
    ELSE NoEmail

\* not email
Falsy(e) == e.isNone \/ e.val = <<>>

T_ab == <<"a", "_", "b">>
T_dash == <<"a", "-", "b">>
T_nl == <<"a", "_", "b", "\n">>

F_ab_csv == T_ab \o S_csv
F_Ab_xlsx == <<"A", " ", "b">> \o S_xlsx
F_a_txt == <<"a", ".", "t", "x", "t">>
F_q_sql == <<"q">> \o S_sql
F_dash_json == T_dash \o S_json
F_results == T_ab \o S_results_csv

NoFile == [filename |-> <<>>, content |-> NoContent]
Uploads == {
    [filename |-> F_ab_csv, content |-> Content("csv", <<HeaderLine>> \o SmallRows)],
    [filename |-> F_Ab_xlsx, content |-> Content("excel", <<HeaderLine>> \o BigRows)],
    [filename |-> F_a_txt, content |-> Content("text", <<7>>)],
    [filename |-> F_q_sql, content |-> Content("sql", <<8>>)],
    [filename |-> F_dash_json, content |-> Content("json", <<3>>)] }

NoLimit == [kind |-> "absent", val |-> 0]
Limits == {NoLimit, [kind |-> "int", val |-> 1], [kind |-> "str", val |-> 0]}

BaseReq == [route |-> "healthz", method |-> "GET", header |-> H_good, file |-> NoFile,
            table |-> <<>>, report |-> None, limit |-> NoLimit, fname |-> <<>>]

IndexReqs ==
    {[BaseReq EXCEPT !.route = "index", !.method = m] : m \in {"GET", "POST"}}
    \cup {[BaseReq EXCEPT !.route = "index", !.method = "POST", !.file = u] : u \in Uploads}
DownloadFileReqs ==
    {[BaseReq EXCEPT !.route = "download_file", !.fname = F_results]}
DownloadBqReqs ==
    {[BaseReq EXCEPT !.route = "download_bq", !.table = t] : t \in {<<>>, T_ab, T_dash}}
PlainReqs ==
    {[BaseReq EXCEPT !.route = r] : r \in {"whoami", "list_reports", "looker_help", "healthz"}}
RunReportReqs ==
    {[BaseReq EXCEPT !.route = "run_report", !.method = "POST",
                     !.report = "dept_totals", !.table = t] : t \in {<<>>, T_ab, T_dash, T_nl}}
    \cup {[BaseReq EXCEPT !.route = "run_report", !.method = "POST",
                          !.report = "nope", !.table = T_ab]}
    \cup {[BaseReq EXCEPT !.route = "run_report", !.method = "POST",
                          !.report = "dept_totals", !.table = T_ab, !.limit = l] : l \in Limits}
DownloadReportReqs ==
    {[BaseReq EXCEPT !.route = "download_report",
                     !.report = "avg_monthly_by_dept", !.table = t] : t \in {<<>>, T_ab, T_dash}}
    \cup {[BaseReq EXCEPT !.route = "download_report", !.table = T_ab]}
PublishReqs ==
    {[BaseReq EXCEPT !.route = "publish_looker_views", !.method = "POST", !.table = t] :
        t \in {<<>>, T_ab, T_dash}}

AuthedRequests ==
    IndexReqs \cup DownloadFileReqs \cup DownloadBqReqs \cup PlainReqs
    \cup RunReportReqs \cup DownloadReportReqs \cup PublishReqs

\* One request per route, with its payload, for each header that carries no
\* principal.
UnauthRequests ==
    {[r EXCEPT !.header = h] :
        r \in {q \in AuthedRequests :
                 /\ q.route = "index" => q.file.filename = F_ab_csv
                 /\ q.route \in {"download_bq", "publish_looker_views", "run_report",
                                 "download_report"} => q.table = T_ab
                 /\ q.report \in {"dept_totals", "avg_monthly_by_dept", None}
                 /\ q.limit = NoLimit},
        h \in BadHeaders}

Requests == AuthedRequests \cup UnauthRequests

\* The routes wrapped by require_user; /healthz is not.
Protected == {"index", "download_file", "download_bq", "whoami", "list_reports",
              "run_report", "download_report", "publish_looker_views", "looker_help"}

----------------------------------------------------------------------------
(* State *)

NoResp == [status |-> 0, unhandled |-> FALSE, error |-> ""]
LocInit == [table_name |-> <<>>, file_path |-> <<>>, filename |-> <<>>,
            tmp_path |-> <<>>, source_format |-> "", skip_rows |-> 0,
            results |-> <<>>, sql |-> <<>>, limit |-> 0, i |-> 0, created |-> {},
            ra_start |-> 0, ra_csv |-> NoContent, ra_rows |-> <<>>]

\* The server runs several request-handling workers; each of them may be
\* inside one call of a create-if-absent helper.
Workers == {"w1", "w2"}
WorkerInit == [fn |-> "", pc |-> "idle", table_name |-> <<>>, i |-> 0, csv_uri |-> <<>>,
               absent |-> FALSE, attempted |-> FALSE, fault |-> FALSE, error |-> ""]

Init ==
    /\ pc = "idle"
    /\ stk = <<>>
    /\ req = BaseReq
    /\ email = NoEmail
    /\ resp = NoResp
    /\ calls = <<>>
    /\ loc = LocInit
    /\ datasetExists = FALSE
    /\ tables = EmptyMap
    /\ views = {}
    /\ blobs = EmptyMap
    /\ tmp = EmptyMap
    /\ published = <<>>
    /\ nreq = 0
    /\ hist = EmptyMap
    /\ workers = [w \in Workers |-> WorkerInit]

warehouse == <<datasetExists, tables, views>>
world == <<datasetExists, tables, views, blobs, tmp, published, hist>>
session == <<req, email, nreq>>

\* An effect of the request: a call to an external service, or a local file
\* written ("local").
Call(op, target, data, ok) == [op |-> op, target |-> target, data |-> data, ok |-> ok]
Logged(op, target, data, ok) == calls' = Append(calls, Call(op, target, data, ok))

Respond(status, error) ==
    /\ resp' = [status |-> status, unhandled |-> FALSE, error |-> error]
    /\ pc' = "done"
    /\ stk' = <<>>

\* An exception that no except clause of the handler catches.
Unhandled(error) ==
    /\ resp' = [status |-> 500, unhandled |-> TRUE, error |-> error]
    /\ pc' = "done"
    /\ stk' = <<>>

\* An exception raised inside the try block of the route's handler:
\* index, run_report, download_report and publish_looker_views catch Exception
\* and answer 500; download_bq catches ValueError alone and answers 400.
Raise(exc, error) ==
    CASE req.route \in {"index", "run_report", "download_report", "publish_looker_views"}
            -> Respond(500, error)
      [] req.route = "download_bq"
            -> IF exc = "ValueError" THEN Respond(400, error) ELSE Unhandled(error)
      [] OTHER -> Unhandled(error)

Goto(label) == pc' = label /\ UNCHANGED <<stk, resp>>
CallHelper(label, ret) == pc' = label /\ stk' = <<ret>> \o stk /\ UNCHANGED resp
Return == pc' = Head(stk) /\ stk' = Tail(stk) /\ UNCHANGED resp

----------------------------------------------------------------------------
(* The request boundary *)

\* A request arrives; before_request resolves the principal.
Receive ==
    /\ pc \in {"idle", "done"}
    /\ nreq < MaxRequests
    /\ \E r \in Requests :
        /\ req' = r
        /\ email' = read_iap_identity(r.header)
        /\ pc' = IF r.route \in Protected THEN "require_user" ELSE r.route
    /\ nreq' = nreq + 1
    /\ stk' = <<>>
    /\ resp' = NoResp
    /\ calls' = <<>>
    /\ loc' = LocInit
    /\ tmp' = EmptyMap
    /\ UNCHANGED <<warehouse, blobs, published, hist, workers>>

\* The wrapper of every protected route.
MutRequireNothing == FALSE
Rejects == Falsy(email)
require_user ==
    /\ pc = "require_user"
    /\ IF Rejects
       THEN Respond(401, "Unauthorized")
       ELSE Goto(req.route)
    /\ UNCHANGED <<session, workers, calls, loc, world>>

\* /healthz, /whoami, /reports, /looker_help: an answer and nothing else.
plain_route ==
    /\ pc \in {"healthz", "whoami", "list_reports", "looker_help"}
    /\ Respond(200, "")
    /\ UNCHANGED <<session, workers, calls, loc, world>>

----------------------------------------------------------------------------
(* ensure_dataset_exists *)

get_dataset ==
    /\ pc = "get_dataset"
    /\ \E ok \in BOOLEAN :
        LET found == ok /\ datasetExists
        IN  /\ Logged("get_dataset", <<BIGQUERY_DATASET>>, NoContent, found)
            /\ IF found THEN Return ELSE Goto("create_dataset")
    /\ UNCHANGED <<session, workers, loc, world>>

create_dataset ==
    /\ pc = "create_dataset"
    /\ \E ok \in BOOLEAN :
        LET created == ok /\ ~datasetExists
        IN  /\ Logged("create_dataset", <<BIGQUERY_DATASET>>, NoContent, created)
            /\ IF created
               THEN datasetExists' = TRUE /\ Return
               ELSE /\ Raise("Exception", IF datasetExists THEN "Conflict" ELSE "upstream")
                    /\ UNCHANGED datasetExists
    /\ UNCHANGED <<session, workers, loc, tables, views, blobs, tmp, published, hist>>

----------------------------------------------------------------------------
(* The warehouse's jobs *)

PreviewLimit == 10
DefaultLimit == 1000

\* write_disposition of a job: the rows the destination holds afterwards
Written(disposition, old, new) ==
    IF disposition = "WRITE_TRUNCATE" THEN new ELSE old \o new

Rows(tbls, id) == IF Has(tbls, id) THEN tbls[id] ELSE <<>>

\* The source format a load job reads the encoding as
FormatOf(enc) ==
    CASE enc = "csv" -> "CSV"
      [] enc = "json" -> "NEWLINE_DELIMITED_JSON"
      [] enc = "parquet" -> "PARQUET"
      [] OTHER -> "unreadable"

\* The rows a load job reads: the lines after skip_leading_rows
LoadedRows(content, skip_rows) == SubSeq(content.lines, skip_rows + 1, Len(content.lines))

\* SELECT * FROM t [LIMIT n] has no ORDER BY, so the warehouse may return the
\* rows in any order; two scan orders stand for that freedom.
QueryResults(rows, n) == {Take(rows, n), Take(Reverse(rows), n)}
QueryAll(rows) == {rows, Reverse(rows)}

\* LoadJobConfig(write_disposition=...) of load_to_bigquery
MutLoadAppend == "WRITE_APPEND"
LoadDisposition == "WRITE_TRUNCATE"

\* QueryJobConfig(write_disposition=...) of run_analysis
AnalysisDisposition == "WRITE_TRUNCATE"

----------------------------------------------------------------------------
(* index: the upload handler *)

TableNameOf(filename) == lower(replace(splitext(filename)[1], " ", "_"))
ExtOf(filename) == lower(splitext(filename)[2])

index ==
    /\ pc = "index"
    /\ IF req.method = "POST" /\ req.file.filename # <<>>
       THEN LET uploaded == req.file
                file_ext == ExtOf(uploaded.filename)
                file_path == S_tmp \o uploaded.filename
                table_name == TableNameOf(uploaded.filename)
                saved == Put(tmp, file_path, uploaded.content)
                save == Call("local", file_path, uploaded.content, TRUE)
                csv_path == S_tmp \o table_name \o S_csv
            IN  CASE file_ext = S_sql ->
                        /\ tmp' = saved
                        /\ calls' = Append(calls, save)
                        /\ loc' = [loc EXCEPT !.table_name = table_name, !.file_path = file_path]
                        /\ Goto("index_sql_upload")
                  [] file_ext \in {S_xlsx, S_xls} ->
                        IF uploaded.content.enc = "excel"
                        THEN /\ tmp' = Put(saved, csv_path, ExcelToCsv(saved[file_path]))
                             /\ calls' = calls \o <<save, Call("local", csv_path,
                                                    ExcelToCsv(saved[file_path]), TRUE)>>
                             /\ loc' = [loc EXCEPT !.table_name = table_name,
                                                   !.file_path = csv_path,
                                                   !.filename = table_name \o S_csv]
                             /\ pc' = "load_to_bigquery"
                             /\ stk' = <<"run_analysis", "index_ok">>
                             /\ UNCHANGED resp
                        ELSE /\ tmp' = saved
                             /\ calls' = Append(calls, save)
                             /\ UNCHANGED loc
                             /\ Raise("Exception", "not an Excel file")
                  [] file_ext \in {S_csv, S_json, S_parquet} ->
                        /\ tmp' = saved
                        /\ calls' = Append(calls, save)
                        /\ loc' = [loc EXCEPT !.table_name = table_name,
                                              !.file_path = file_path,
                                              !.filename = uploaded.filename]
                        /\ pc' = "load_to_bigquery"
                        /\ stk' = <<"run_analysis", "index_ok">>
                        /\ UNCHANGED resp
                  [] OTHER ->
                        /\ tmp' = saved
                        /\ calls' = Append(calls, save)
                        /\ UNCHANGED loc
                        /\ Respond(400, "Unsupported file format.")
       ELSE /\ Respond(200, "")
            /\ UNCHANGED <<calls, loc, tmp>>
    /\ UNCHANGED <<session, workers, warehouse, blobs, published, hist>>

\* .sql: the raw file goes to the object store ...
index_sql_upload ==
    /\ pc = "index_sql_upload"
    /\ \E ok \in BOOLEAN :
        LET path == S_uploads \o req.file.filename
        IN  /\ Logged("upload", path, tmp[loc.file_path], ok)
            /\ IF ok
               THEN blobs' = Put(blobs, path, tmp[loc.file_path]) /\ Goto("index_publish")
               ELSE Raise("Exception", "upstream") /\ UNCHANGED blobs
    /\ UNCHANGED <<session, workers, loc, warehouse, tmp, published, hist>>

\* ... and a message to the import topic; publish() returns a future that the
\* handler never waits for, so a lost message raises nothing.  The analysis
\* of the derived table name follows, as for every upload.
index_publish ==
    /\ pc = "index_publish"
    /\ \E ok \in BOOLEAN :
        /\ Logged("publish", req.file.filename, NoContent, ok)
        /\ published' = IF ok
                        THEN Append(published, [name |-> req.file.filename,
                                                bucket |-> BUCKET_NAME])
                        ELSE published
    /\ pc' = "run_analysis"
    /\ stk' = <<"index_ok">>
    /\ UNCHANGED <<session, workers, resp, loc, warehouse, blobs, tmp, hist>>

index_ok ==
    /\ pc = "index_ok"
    /\ Respond(200, "")
    /\ UNCHANGED <<session, workers, calls, loc, world>>

----------------------------------------------------------------------------
(* load_to_bigquery(file_path, filename, table_name), its arguments in loc *)

load_to_bigquery ==
    /\ pc = "load_to_bigquery"
    /\ CallHelper("get_dataset", "load_dispatch")
    /\ UNCHANGED <<session, workers, calls, loc, world>>

\* the dispatch on the extension of filename
load_dispatch ==
    /\ pc = "load_dispatch"
    /\ LET ext == ExtOf(loc.filename)
           csv_path == S_tmp \o loc.table_name \o S_csv
       IN  CASE ext \in {S_xls, S_xlsx} ->
                    IF Has(tmp, loc.file_path) /\ tmp[loc.file_path].enc = "excel"
                    THEN /\ tmp' = Put(tmp, csv_path, ExcelToCsv(tmp[loc.file_path]))
                         /\ calls' = Append(calls, Call("local", csv_path,
                                                   ExcelToCsv(tmp[loc.file_path]), TRUE))
                         /\ loc' = [loc EXCEPT !.tmp_path = csv_path,
                                               !.source_format = "CSV", !.skip_rows = 1]
                         /\ Goto("load_upload")
                    ELSE /\ Raise("Exception", "not an Excel file")
                         /\ UNCHANGED <<tmp, calls, loc>>
             [] ext = S_csv ->
                    /\ loc' = [loc EXCEPT !.tmp_path = loc.file_path,
                                          !.source_format = "CSV", !.skip_rows = 1]
                    /\ Goto("load_upload")
                    /\ UNCHANGED <<tmp, calls>>
             [] ext = S_json ->
                    /\ loc' = [loc EXCEPT !.tmp_path = loc.file_path,
                                          !.source_format = "NEWLINE_DELIMITED_JSON",
                                          !.skip_rows = 0]
                    /\ Goto("load_upload")
                    /\ UNCHANGED <<tmp, calls>>
             [] ext = S_parquet ->
                    /\ loc' = [loc EXCEPT !.tmp_path = loc.file_path,
                                          !.source_format = "PARQUET", !.skip_rows = 0]
                    /\ Goto("load_upload")
                    /\ UNCHANGED <<tmp, calls>>
             [] OTHER ->
                    /\ Raise("ValueError", "Unsupported file type.")
                    /\ UNCHANGED <<tmp, calls, loc>>
    /\ UNCHANGED <<session, workers, warehouse, blobs, published, hist>>

\* blob.upload_from_filename(tmp_path) to uploads/<filename>
load_upload ==
    /\ pc = "load_upload"
    /\ \E ok \in BOOLEAN :
        LET path == S_uploads \o loc.filename
            readable == ok /\ Has(tmp, loc.tmp_path)
            data == IF Has(tmp, loc.tmp_path) THEN tmp[loc.tmp_path] ELSE NoContent
        IN  /\ Logged("upload", path, data, readable)
            /\ IF readable
               THEN blobs' = Put(blobs, path, data) /\ Goto("load_job")
               ELSE Raise("Exception", "upstream") /\ UNCHANGED blobs
    /\ UNCHANGED <<session, workers, loc, warehouse, tmp, published, hist>>

\* load_table_from_file(...) and load_job.result(): a job that fails commits
\* nothing.
load_job ==
    /\ pc = "load_job"
    /\ \E ok \in BOOLEAN :
        LET table_id == FQ(loc.table_name)
            data == tmp[loc.tmp_path]
            loaded == ok /\ FormatOf(data.enc) = loc.source_format
        IN  /\ Logged("load", table_id, data, loaded)
            /\ IF loaded
               THEN /\ tables' = Put(tables, table_id,
                                     Written(LoadDisposition, Rows(tables, table_id),
                                             LoadedRows(data, loc.skip_rows)))
                    /\ hist' = [t \in (DOMAIN hist) \ {loc.table_name} |-> hist[t]]
                    /\ Return
               ELSE /\ Raise("Exception", "load job failed")
                    /\ UNCHANGED <<tables, hist>>
    /\ UNCHANGED <<session, workers, loc, datasetExists, views, blobs, tmp, published>>

----------------------------------------------------------------------------
(* run_analysis(table_name), its argument in loc.table_name *)

\* the table of the query f"SELECT * FROM `{...}.{table_name}` LIMIT 10"
MutAnalysisFirst(table_name) ==
    IF Has(tables, FQ(table_name \o S_analysis))
    THEN FQ(table_name \o S_analysis) ELSE FQ(table_name)
QuerySource(table_name) == FQ(table_name)

ResultsPath(table_name) == S_results_dir \o table_name \o S_results_csv
LocalCsv(table_name) == S_tmp \o table_name \o S_results_csv

\* csv.writer: the header row from the result's schema, then the rows
CsvOf(rows) == Content("csv", <<HeaderLine>> \o rows)

Last2(s) == IF Len(s) > 2 THEN SubSeq(s, Len(s) - 1, Len(s)) ELSE s

\* The entry also notes, for the record, where the call starts in the log of
\* the request and what the artifact and the analysis table held (history).
run_analysis ==
    /\ pc = "run_analysis"
    /\ CallHelper("get_dataset", "ra_get_table")
    /\ loc' = [loc EXCEPT
                 !.ra_start = Len(calls) + 1,
                 !.ra_csv = IF Has(blobs, ResultsPath(loc.table_name))
                            THEN blobs[ResultsPath(loc.table_name)] ELSE NoContent,
                 !.ra_rows = Rows(tables, FQ(loc.table_name \o S_analysis))]
    /\ UNCHANGED <<session, workers, calls, world>>

MutGetTableGoesOn ==
    /\ pc = "ra_get_table"
    /\ \E ok \in BOOLEAN :
        /\ Logged("get_table", FQ(loc.table_name), NoContent,
                  ok /\ Has(tables, FQ(loc.table_name)))
        /\ Goto("ra_query")
    /\ UNCHANGED <<session, workers, loc, world>>

\* bq_client.get_table(...): any failure is reported as "not found"
ra_get_table ==
    /\ pc = "ra_get_table"
    /\ \E ok \in BOOLEAN :
        LET found == ok /\ Has(tables, FQ(loc.table_name))
        IN  /\ Logged("get_table", FQ(loc.table_name), NoContent, found)
            /\ IF found
               THEN Goto("ra_query")
               ELSE Raise("ValueError", "table not found")
    /\ UNCHANGED <<session, workers, loc, world>>

\* the preview query, and its rows written to the local CSV
ra_query ==
    /\ pc = "ra_query"
    /\ \E ok \in BOOLEAN :
        LET src == QuerySource(loc.table_name)
            ran == ok /\ Has(tables, src)
        IN  /\ \E r \in (IF ran THEN QueryResults(tables[src], PreviewLimit) ELSE {<<>>}) :
                IF ran
                THEN /\ calls' = calls \o <<Call("query", src, NoContent, TRUE),
                                            Call("local", LocalCsv(loc.table_name), CsvOf(r), TRUE)>>
                     /\ loc' = [loc EXCEPT !.results = r]
                     /\ tmp' = Put(tmp, LocalCsv(loc.table_name), CsvOf(r))
                     /\ Goto("ra_upload")
                ELSE /\ Logged("query", src, NoContent, FALSE)
                     /\ Raise("Exception", "query failed")
                     /\ UNCHANGED <<loc, tmp>>
    /\ UNCHANGED <<session, workers, warehouse, blobs, published, hist>>

\* blob.upload_from_filename(local_csv) to analysis_results/<table>_results.csv
ra_upload ==
    /\ pc = "ra_upload"
    /\ \E ok \in BOOLEAN :
        LET path == ResultsPath(loc.table_name)
            data == tmp[LocalCsv(loc.table_name)]
        IN  /\ Logged("upload", path, data, ok)
            /\ IF ok
               THEN blobs' = Put(blobs, path, data) /\ Goto("ra_dest_query")
               ELSE Raise("Exception", "upstream") /\ UNCHANGED blobs
    /\ UNCHANGED <<session, workers, loc, warehouse, tmp, published, hist>>

\* the same query again, with <table>_analysis as its destination; then
\* return table_name
ra_dest_query ==
    /\ pc = "ra_dest_query"
    /\ \E ok \in BOOLEAN :
        LET src == QuerySource(loc.table_name)
            dest_name == loc.table_name \o S_analysis
            dest == FQ(dest_name)
            ran == ok /\ Has(tables, src)
        IN  /\ Logged("query_into", dest, NoContent, ran)
            /\ IF ran
               THEN \E r \in QueryResults(tables[src], PreviewLimit) :
                      LET new == Written(AnalysisDisposition, Rows(tables, dest), r)
                          run == [csv |-> blobs[ResultsPath(loc.table_name)].lines,
                                  n |-> Len(new)]
                          kept == [t \in (DOMAIN hist) \ {dest_name} |-> hist[t]]
                          sofar == IF Has(kept, loc.table_name)
                                   THEN kept[loc.table_name] ELSE <<>>
                      IN  /\ tables' = Put(tables, dest, new)
                          /\ hist' = Put(kept, loc.table_name, Last2(Append(sofar, run)))
                          /\ Return
               ELSE /\ Raise("Exception", "query failed")
                    /\ UNCHANGED <<tables, hist>>
    /\ UNCHANGED <<session, workers, loc, datasetExists, views, blobs, tmp, published>>

----------------------------------------------------------------------------
(* /download/<filename> *)

\* blob.exists(), outside any try block
download_file ==
    /\ pc = "download_file"
    /\ \E ok \in BOOLEAN :
        LET path == S_results_dir \o req.fname
        IN  /\ Logged("exists", path, NoContent, ok)
            /\ IF ~ok THEN Unhandled("upstream")
               ELSE IF Has(blobs, path) THEN Goto("download_file_get")
               ELSE Respond(404, "not found")
    /\ UNCHANGED <<session, workers, loc, world>>

\* blob.download_to_filename(temp_path) and send_file
download_file_get ==
    /\ pc = "download_file_get"
    /\ \E ok \in BOOLEAN :
        LET path == S_results_dir \o req.fname
        IN  /\ Logged("download", path, NoContent, ok)
            /\ IF ok
               THEN tmp' = Put(tmp, S_tmp \o req.fname, blobs[path]) /\ Respond(200, "")
               ELSE Unhandled("upstream") /\ UNCHANGED tmp
    /\ UNCHANGED <<session, workers, loc, warehouse, blobs, published, hist>>

----------------------------------------------------------------------------
(* /download_bq *)

download_bq ==
    /\ pc = "download_bq"
    /\ IF req.table = <<>>
       THEN Respond(400, "Missing ?table parameter.") /\ UNCHANGED loc
       ELSE /\ loc' = [loc EXCEPT !.table_name = req.table]
            /\ pc' = "run_analysis"
            /\ stk' = <<"download_bq_query">>
            /\ UNCHANGED resp
    /\ UNCHANGED <<session, workers, calls, world>>

\* SELECT * FROM <table>_analysis, outside the try block, written to a local
\* CSV and sent
download_bq_query ==
    /\ pc = "download_bq_query"
    /\ \E ok \in BOOLEAN :
        LET src == FQ(loc.table_name \o S_analysis)
            path == S_tmp \o loc.table_name \o S_analysis_csv
            ran == ok /\ Has(tables, src)
        IN  /\ \E r \in (IF ran THEN QueryAll(tables[src]) ELSE {<<>>}) :
                IF ran
                THEN /\ calls' = calls \o <<Call("query_analysis", src, NoContent, TRUE),
                                            Call("local", path, CsvOf(r), TRUE)>>
                     /\ tmp' = Put(tmp, path, CsvOf(r))
                     /\ loc' = [loc EXCEPT !.results = r]
                     /\ Respond(200, "")
                ELSE /\ Logged("query_analysis", src, NoContent, FALSE)
                     /\ Unhandled("query failed")
                     /\ UNCHANGED <<tmp, loc>>
    /\ UNCHANGED <<session, workers, warehouse, blobs, published, hist>>

----------------------------------------------------------------------------
(* /run_report and /download_report *)

\* int(data.get("limit") or 1000): <<parsed, value>>
IntOfLimit(l) ==
    CASE l.kind = "str" -> <<FALSE, 0>>
      [] l.kind = "absent" \/ l.val = 0 -> <<TRUE, DefaultLimit>>
      [] OTHER -> <<TRUE, l.val>>

\* The rows of a report over a table: an aggregate of its rows, kept abstract
\* as the rows themselves.
ReportRows(rows) == rows

run_report ==
    /\ pc = "run_report"
    /\ LET limit == IntOfLimit(req.limit)
       IN  IF ~limit[1] THEN Unhandled("ValueError") /\ UNCHANGED loc
           ELSE IF req.report \notin REPORTS
                THEN Respond(400, "Unknown report id.") /\ UNCHANGED loc
           ELSE IF req.table = <<>>
                THEN Respond(400, "Missing 'table'.") /\ UNCHANGED loc
           ELSE IF ~VALID_TABLE_RE(req.table)
                THEN Raise("ValueError", "Invalid table name.") /\ UNCHANGED loc
           ELSE /\ loc' = [loc EXCEPT !.table_name = req.table, !.limit = limit[2],
                                      !.sql = SubstituteTable(ReportSql(req.report),
                                                              FQ(req.table))]
                /\ Goto("run_sql")
    /\ UNCHANGED <<session, workers, calls, world>>

\* _run_sql(sql, max_rows): the query fails when its table does not exist
run_sql ==
    /\ pc = "run_sql"
    /\ \E ok \in BOOLEAN :
        LET ran == ok /\ Has(tables, FQ(loc.table_name))
        IN  /\ Logged("query", loc.sql, NoContent, ran)
            /\ IF ran
               THEN /\ loc' = [loc EXCEPT !.results =
                                  Take(ReportRows(tables[FQ(loc.table_name)]), loc.limit)]
                    /\ Respond(200, "")
               ELSE Raise("Exception", "query failed") /\ UNCHANGED loc
    /\ UNCHANGED <<session, workers, world>>

download_report ==
    /\ pc = "download_report"
    /\ IF req.report \notin REPORTS \/ req.table = <<>>
       THEN Respond(400, "Missing or invalid parameters.") /\ UNCHANGED loc
       ELSE IF ~VALID_TABLE_RE(req.table)
            THEN Raise("ValueError", "Invalid table name.") /\ UNCHANGED loc
       ELSE /\ loc' = [loc EXCEPT !.table_name = req.table,
                                  !.sql = SubstituteTable(ReportSql(req.report),
                                                          FQ(req.table))]
            /\ Goto("download_report_query")
    /\ UNCHANGED <<session, workers, calls, world>>

\* bq_client.query(sql).result() with no row limit, sent as CSV from memory
download_report_query ==
    /\ pc = "download_report_query"
    /\ \E ok \in BOOLEAN :
        LET ran == ok /\ Has(tables, FQ(loc.table_name))
        IN  /\ Logged("query", loc.sql, NoContent, ran)
            /\ IF ran
               THEN /\ loc' = [loc EXCEPT !.results = ReportRows(tables[FQ(loc.table_name)])]
                    /\ Respond(200, "")
               ELSE Raise("Exception", "query failed") /\ UNCHANGED loc
    /\ UNCHANGED <<session, workers, world>>

----------------------------------------------------------------------------
(* /publish_looker_views and publish_looker_views_for_table *)

publish_looker_views ==
    /\ pc = "publish_looker_views"
    /\ IF req.table = <<>>
       THEN Respond(400, "Missing 'table'.") /\ UNCHANGED loc
       ELSE /\ loc' = [loc EXCEPT !.table_name = req.table]
            /\ Goto("publish_looker_views_for_table")
    /\ UNCHANGED <<session, workers, calls, world>>

publish_looker_views_for_table ==
    /\ pc = "publish_looker_views_for_table"
    /\ CallHelper("get_dataset", "publish_validate")
    /\ UNCHANGED <<session, workers, calls, loc, world>>

\* the check of the table name, after the dataset is ensured; then the loop
\* over REPORTS, in the catalog's order
publish_validate ==
    /\ pc = "publish_validate"
    /\ IF ~VALID_TABLE_RE(loc.table_name)
       THEN Raise("ValueError", "Invalid table name.") /\ UNCHANGED loc
       ELSE /\ loc' = [loc EXCEPT !.i = 1, !.created = {}]
            /\ Goto("view_get_table")
    /\ UNCHANGED <<session, workers, calls, world>>

ViewId(table_name, i) == FQ(ViewName(table_name, ReportIds[i]))
ViewBody(table_name, i) == SubstituteTable(ReportSql(ReportIds[i]), FQ(table_name))
ViewExists(id) == \E v \in views : v.id = id

\* the end of an iteration: created[rid] = view_fq, then the next report or
\* the return of the mapping
NextReport ==
    /\ loc' = [loc EXCEPT !.i = loc.i + 1,
                          !.created = {c \in loc.created : c.rid # ReportIds[loc.i]}
                                      \cup {[rid |-> ReportIds[loc.i],
                                             view |-> ViewId(loc.table_name, loc.i)]}]
    /\ IF loc.i = Len(ReportIds) THEN Respond(200, "") ELSE Goto("view_get_table")

\* _create_or_replace_view: bq_client.get_table(view_id); NotFound leads to the
\* creation, any other failure is raised
view_get_table ==
    /\ pc = "view_get_table"
    /\ \E ok \in BOOLEAN :
        LET id == ViewId(loc.table_name, loc.i)
        IN  /\ Logged("get_table", id, NoContent, ok /\ ViewExists(id))
            /\ IF ~ok THEN Raise("Exception", "upstream")
               ELSE IF ViewExists(id) THEN Goto("view_update")
               ELSE Goto("view_create")
    /\ UNCHANGED <<session, workers, loc, world>>

\* bq_client.update_table(existing, ["view_query"]): the warehouse refuses a
\* view over a table that does not exist
UpdatedViews(vs, id, sql) == {v \in vs : v.id # id} \cup {[id |-> id, sql |-> sql]}

view_update ==
    /\ pc = "view_update"
    /\ \E ok \in BOOLEAN :
        LET id == ViewId(loc.table_name, loc.i)
            sql == ViewBody(loc.table_name, loc.i)
            done == ok /\ ViewExists(id) /\ Has(tables, FQ(loc.table_name))
        IN  /\ Logged("update_table", id, NoContent, done)
            /\ IF done
               THEN views' = UpdatedViews(views, id, sql) /\ NextReport
               ELSE Raise("Exception", "upstream") /\ UNCHANGED <<views, loc>>
    /\ UNCHANGED <<session, workers, datasetExists, tables, blobs, tmp, published, hist>>

\* bq_client.create_table(table): refused when the id is taken
view_create ==
    /\ pc = "view_create"
    /\ \E ok \in BOOLEAN :
        LET id == ViewId(loc.table_name, loc.i)
            sql == ViewBody(loc.table_name, loc.i)
            done == ok /\ ~ViewExists(id) /\ Has(tables, FQ(loc.table_name))
        IN  /\ Logged("create_table", id, NoContent, done)
            /\ IF done
               THEN views' = views \cup {[id |-> id, sql |-> sql]} /\ NextReport
               ELSE Raise("Exception", "upstream") /\ UNCHANGED <<views, loc>>
    /\ UNCHANGED <<session, workers, datasetExists, tables, blobs, tmp, published, hist>>

----------------------------------------------------------------------------
(* The application *)

Next ==
    \/ Receive
    \/ require_user
    \/ plain_route
    \/ get_dataset
    \/ create_dataset
    \/ index
    \/ index_sql_upload
    \/ index_publish
    \/ index_ok
    \/ load_to_bigquery
    \/ load_dispatch
    \/ load_upload
    \/ load_job
    \/ run_analysis
    \/ ra_get_table
    \/ ra_query
    \/ ra_upload
    \/ ra_dest_query
    \/ download_file
    \/ download_file_get
    \/ download_bq
    \/ download_bq_query
    \/ run_report
    \/ run_sql
    \/ download_report
    \/ download_report_query
    \/ publish_looker_views
    \/ publish_looker_views_for_table
    \/ publish_validate
    \/ view_get_table
    \/ view_update
    \/ view_create

Spec == Init /\ [][Next]_vars

----------------------------------------------------------------------------
(* The helper load_to_bigquery called on its own, as a function of the     *)
(* module: the caller has put a file at file_path.  An exception goes back *)
(* to the caller.                                                          *)

F_ab_parquet == T_ab \o S_parquet
DirectLoads == {
    [filename |-> F_a_txt, content |-> Content("text", <<7>>)],
    [filename |-> F_ab_parquet, content |-> Content("parquet", SmallRows)],
    [filename |-> F_Ab_xlsx, content |-> Content("excel", <<HeaderLine>> \o SmallRows)] }

call_load_to_bigquery ==
    /\ pc \in {"idle", "done"}
    /\ nreq < MaxRequests
    /\ \E f \in DirectLoads :
        /\ req' = [BaseReq EXCEPT !.route = "load_to_bigquery", !.file = f]
        /\ tmp' = Put(EmptyMap, S_tmp \o f.filename, f.content)
        /\ loc' = [LocInit EXCEPT !.file_path = S_tmp \o f.filename,
                                  !.filename = f.filename,
                                  !.table_name = TableNameOf(f.filename)]
    /\ email' = NoEmail
    /\ nreq' = nreq + 1
    /\ pc' = "load_to_bigquery"
    /\ stk' = <<"load_returned">>
    /\ resp' = NoResp
    /\ calls' = <<>>
    /\ UNCHANGED <<warehouse, blobs, published, hist, workers>>

load_returned ==
    /\ pc = "load_returned"
    /\ Respond(0, "")
    /\ UNCHANGED <<session, workers, calls, loc, world>>

LibNext == Next \/ call_load_to_bigquery \/ load_returned

LibSpec == Init /\ [][LibNext]_vars

----------------------------------------------------------------------------
(* Two workers inside the create-if-absent helpers at the same time:       *)
(* ensure_dataset_exists of the portal, create_table_from_csv_if_not_exists *)
(* of the cloud function.  Each worker makes one call; a step is one call  *)
(* to the warehouse or to the object store, and the steps of the two       *)
(* workers interleave.  A worker records what its call has met: absent     *)
(* (the lookup found nothing), attempted (it asked for the creation),      *)
(* fault (a service failed for a reason other than the resource existing). *)

S_data == <<"d", "a", "t", "a", "/">>
S_raw == <<"r", "a", "w", "/">>

\* possible_paths
possible_paths(table_name) ==
    << table_name \o S_csv,
       S_uploads \o table_name \o S_csv,
       S_data \o table_name \o S_csv,
       S_raw \o table_name \o S_csv >>

\* LoadJobConfig(...) of create_table_from_csv_if_not_exists names no
\* write_disposition: the load job appends.
CreateDisposition == "WRITE_APPEND"

StagedCsv == Content("csv", <<HeaderLine>> \o SmallRows)
StagedBlobs == Put(EmptyMap, S_uploads \o F_ab_csv, StagedCsv)

\* What the portal has left behind when the two calls start: nothing; the
\* dataset alone; an uploaded CSV whose load failed; an uploaded CSV loaded.
Stagings == {
    [datasetExists |-> FALSE, blobs |-> EmptyMap, tables |-> EmptyMap],
    [datasetExists |-> TRUE, blobs |-> EmptyMap, tables |-> EmptyMap],
    [datasetExists |-> TRUE, blobs |-> StagedBlobs, tables |-> EmptyMap],
    [datasetExists |-> TRUE, blobs |-> StagedBlobs,
     tables |-> Put(EmptyMap, FQ(T_ab), SmallRows)] }

RaceInit ==
    /\ pc = "idle"
    /\ stk = <<>>
    /\ req = BaseReq
    /\ email = NoEmail
    /\ resp = NoResp
    /\ calls = <<>>
    /\ loc = LocInit
    /\ \E s \in Stagings :
        /\ datasetExists = s.datasetExists
        /\ blobs = s.blobs
        /\ tables = s.tables
    /\ views = {}
    /\ tmp = EmptyMap
    /\ published = <<>>
    /\ nreq = 0
    /\ hist = EmptyMap
    /\ workers = [w \in Workers |-> WorkerInit]

portal == <<pc, stk, req, email, resp, calls, loc, tmp, nreq, hist>>

Step(w, label) == [workers[w] EXCEPT !.pc = label]
Raised(w, error, fault) ==
    [workers[w] EXCEPT !.pc = "raised", !.error = error, !.fault = @ \/ fault]

\* A worker enters ensure_dataset_exists(BIGQUERY_DATASET).
call_ensure_dataset_exists(w) ==
    /\ workers[w].pc = "idle"
    /\ workers' = [workers EXCEPT ![w] =
                      [@ EXCEPT !.fn = "ensure_dataset_exists", !.pc = "get_dataset"]]
    /\ UNCHANGED <<portal, warehouse, blobs, published>>

\* bq_client.get_dataset(dataset_ref); except Exception: go on to create.
ensure_get_dataset(w) ==
    /\ workers[w].pc = "get_dataset"
    /\ \E ok \in BOOLEAN :
        workers' = [workers EXCEPT ![w] =
            IF ok /\ datasetExists
            THEN Step(w, "returned")
            ELSE [@ EXCEPT !.pc = "create_dataset",
                           !.absent = ~datasetExists,
                           !.fault = @ \/ ~ok]]
    /\ UNCHANGED <<portal, warehouse, blobs, published>>

\* bq_client.create_dataset(dataset), outside every try block: the
\* warehouse refuses a dataset that exists (Conflict), and the exception
\* leaves the helper.
ensure_create_dataset(w) ==
    /\ workers[w].pc = "create_dataset"
    /\ \E ok \in BOOLEAN :
        IF ~ok
        THEN /\ workers' = [workers EXCEPT ![w] =
                    [Raised(w, "upstream", TRUE) EXCEPT !.attempted = TRUE]]
             /\ UNCHANGED datasetExists
        ELSE IF datasetExists
        THEN /\ workers' = [workers EXCEPT ![w] =
                    [Raised(w, "Conflict", FALSE) EXCEPT !.attempted = TRUE]]
             /\ UNCHANGED datasetExists
        ELSE /\ workers' = [workers EXCEPT ![w] =
                    [Step(w, "returned") EXCEPT !.attempted = TRUE]]
             /\ datasetExists' = TRUE
    /\ UNCHANGED <<portal, tables, views, blobs, published>>

\* A worker enters create_table_from_csv_if_not_exists(table_name).
call_create_table(w) ==
    /\ workers[w].pc = "idle"
    /\ workers' = [workers EXCEPT ![w] =
                      [@ EXCEPT !.fn = "create_table_from_csv_if_not_exists",
                                !.pc = "get_table", !.table_name = T_ab]]
    /\ UNCHANGED <<portal, warehouse, blobs, published>>

\* bq_client.get_table(table_ref): return when it is there; except
\* Exception: go on to look for a CSV.
create_get_table(w) ==
    /\ workers[w].pc = "get_table"
    /\ \E ok \in BOOLEAN :
        LET there == datasetExists /\ Has(tables, FQ(workers[w].table_name))
        IN  workers' = [workers EXCEPT ![w] =
                IF ok /\ there
                THEN Step(w, "returned")
                ELSE [@ EXCEPT !.pc = "blob_exists", !.i = 1,
                               !.absent = ~there,
                               !.fault = @ \/ ~ok]]
    /\ UNCHANGED <<portal, warehouse, blobs, published>>

\* for path in possible_paths: blob.exists(); after the loop, ValueError
\* when no path held a CSV.  A failing blob.exists() leaves the helper.
create_blob_exists(w) ==
    /\ workers[w].pc = "blob_exists"
    /\ \E ok \in BOOLEAN :
        LET paths == possible_paths(workers[w].table_name)
            path == paths[workers[w].i]
        IN  workers' = [workers EXCEPT ![w] =
                IF ~ok THEN Raised(w, "upstream", TRUE)
                ELSE IF Has(blobs, path)
                     THEN [@ EXCEPT !.pc = "load", !.csv_uri = path]
                ELSE IF workers[w].i < Len(paths)
                     THEN [@ EXCEPT !.i = @ + 1]
                ELSE Raised(w, "ValueError", FALSE)]
    /\ UNCHANGED <<portal, warehouse, blobs, published>>

\* bq_client.load_table_from_uri(csv_uri, table_ref, job_config) and
\* load_job.result(): the job creates the table when it is not there and
\* appends to it when it is.
create_load(w) ==
    /\ workers[w].pc = "load"
    /\ \E ok \in BOOLEAN :
        LET table_id == FQ(workers[w].table_name)
            data == blobs[workers[w].csv_uri]
            loaded == ok /\ datasetExists
        IN  IF loaded
            THEN /\ tables' = Put(tables, table_id,
                                  Written(CreateDisposition, Rows(tables, table_id),
                                          LoadedRows(data, 1)))
                 /\ workers' = [workers EXCEPT ![w] =
                        [Step(w, "returned") EXCEPT !.attempted = TRUE]]
            ELSE /\ workers' = [workers EXCEPT ![w] =
                        [Raised(w, "load job failed", TRUE) EXCEPT !.attempted = TRUE]]
                 /\ UNCHANGED tables
    /\ UNCHANGED <<portal, datasetExists, views, blobs, published>>

RaceNext ==
    \E w \in Workers :
        \/ call_ensure_dataset_exists(w)
        \/ ensure_get_dataset(w)
        \/ ensure_create_dataset(w)
        \/ call_create_table(w)
        \/ create_get_table(w)
        \/ create_blob_exists(w)
        \/ create_load(w)

RaceSpec == RaceInit /\ [][RaceNext]_vars

----------------------------------------------------------------------------
(* Properties *)

IsExternal(c) == c.op # "local"
ExternalCalls == SelectSeq(calls, IsExternal)
Authenticated == req.header = H_good
IsUpload == req.route = "index" /\ req.method = "POST" /\ req.file.filename # <<>>
HasBadChar(s) == \E i \in 1..Len(s) : s[i] \notin WordChars
AcceptedExts == {S_csv, S_xls, S_xlsx, S_json, S_parquet}

\* The header X-Goog-Authenticated-User-Email is missing or does not start
\* with "accounts.google.com:".
HeaderAbsent ==
    \/ Len(req.header) < 2
    \/ req.header[1] # "accounts.google.com"
    \/ req.header[2] # ":"

\* C1: a request to a protected route whose header carries no principal is
\* answered 401 by the wrapper, and at no point of its handling has anything
\* been called or written on its behalf.
C1_UnauthorizedBeforeEffects ==
    (pc # "idle" /\ req.route \in Protected /\ HeaderAbsent)
    => /\ calls = <<>>
       /\ tmp = EmptyMap
       /\ pc \in {"require_user", "done"}
       /\ pc = "done" => resp.status = 401 /\ ~resp.unhandled

\* An upload without a principal is refused after the store, the warehouse
\* and the dataset have come into use.
C1_Witness ==
    /\ pc = "done"
    /\ IsUpload
    /\ req.header = H_other
    /\ resp.status = 401
    /\ datasetExists
    /\ tables # EmptyMap

\* The table name a request has the handler put into a query or an identifier
NameUsed ==
    CASE req.route \in {"download_bq", "run_report", "download_report",
                        "publish_looker_views"} -> req.table
      [] IsUpload -> TableNameOf(req.file.filename)
      [] OTHER -> <<>>

\* C2 (as claimed): a request whose table name holds a character outside
\* [A-Za-z0-9_] is rejected before any call to an external service.
C2_InvalidNameNoExternalCall ==
    (pc # "idle" /\ Authenticated /\ HasBadChar(NameUsed)) => ExternalCalls = <<>>

\* C3 (as claimed): when load_to_bigquery or the upload handler rejects a file
\* for its extension, no call to an external service has been made.
C3_UnsupportedBeforeNetwork ==
    (pc = "done" /\ resp.error \in {"Unsupported file format.", "Unsupported file type."})
    => ExternalCalls = <<>>

\* The request fails validation: a required parameter is missing, the table
\* name does not match VALID_TABLE_RE, the report id is unknown, or the
\* extension of the uploaded file is not supported.
FailsValidation ==
    \/ /\ req.route \in {"download_bq", "publish_looker_views"}
       /\ req.table = <<>> \/ ~VALID_TABLE_RE(req.table)
    \/ /\ req.route \in {"run_report", "download_report"}
       /\ req.report \notin REPORTS \/ req.table = <<>> \/ ~VALID_TABLE_RE(req.table)
    \/ /\ IsUpload
       /\ ExtOf(req.file.filename) \notin AcceptedExts \cup {S_sql}

\* C4 (as claimed): a request that fails validation is answered with a
\* 400-class status, and nothing external has been called for it.
C4_ValidationAnswered400 ==
    (pc = "done" /\ Authenticated /\ req.limit.kind # "str" /\ FailsValidation)
    => /\ resp.status \in 400..499
       /\ ~resp.unhandled
       /\ ExternalCalls = <<>>

\* C5 (as claimed): when the load job of an accepted upload is started, the
\* object store already holds the bytes as uploaded under uploads/<filename>.
C5_RawBytesBeforeLoad ==
    (pc # "idle" /\ IsUpload)
    => \A i \in 1..Len(calls) :
          calls[i].op = "load"
          => \E j \in 1..(i - 1) :
                /\ calls[j].op = "upload"
                /\ calls[j].ok
                /\ calls[j].target = S_uploads \o req.file.filename
                /\ calls[j].data = req.file.content

\* The data rows a file holds: all its lines, but for the header line of a
\* CSV file or an Excel sheet.
DataRows(c) == IF c.enc \in {"csv", "excel"} THEN Tail(c.lines) ELSE c.lines

LoadSucceeded == \E i \in 1..Len(calls) : calls[i].op = "load" /\ calls[i].ok

\* C6: once the load job of an upload has succeeded, the base table of the
\* derived name holds exactly the data rows of the uploaded file, whatever it
\* held before.
C6_LoadReplaces ==
    (IsUpload /\ LoadSucceeded)
    => /\ Has(tables, FQ(TableNameOf(req.file.filename)))
       /\ tables[FQ(TableNameOf(req.file.filename))] = DataRows(req.file.content)

\* The Excel file has been loaded over the table that the CSV file of the same
\* derived name had filled: the analysis table still shows the CSV file's rows.
C6_Witness ==
    /\ pc = "run_analysis"
    /\ IsUpload
    /\ req.file.filename = F_Ab_xlsx
    /\ LoadSucceeded
    /\ tables[FQ(T_ab)] = BigRows
    /\ Rows(tables, FQ(T_ab \o S_analysis)) \in QueryResults(SmallRows, PreviewLimit)

\* The calls of the run_analysis in progress (or the last one), in order
RunAnalysisOps == {"get_dataset", "create_dataset", "get_table", "query", "upload",
                   "query_into"}
IsRunAnalysisCall(c) == c.op \in RunAnalysisOps
RunAnalysisCalls ==
    IF loc.ra_start = 0 THEN <<>>
    ELSE SelectSeq(SubSeq(calls, loc.ra_start, Len(calls)), IsRunAnalysisCall)

\* C7 (as claimed): the preview query reads <name>_analysis when that table
\* exists, and <name> otherwise.
C7_AnalysisTablePreferred ==
    pc = "ra_upload"
    => calls[Len(calls) - 1].target =
          IF Has(tables, FQ(loc.table_name \o S_analysis))
          THEN FQ(loc.table_name \o S_analysis)
          ELSE FQ(loc.table_name)

\* C7 (amended): the preview query always reads the base table <name>, which
\* exists, also when <name>_analysis exists; and when <name> does not exist the
\* call ends with "table not found" and no query has been executed.
C7_BaseTableQueried ==
    /\ pc = "ra_upload"
       => /\ calls[Len(calls) - 1].op = "query"
          /\ calls[Len(calls) - 1].target = FQ(loc.table_name)
          /\ Has(tables, FQ(loc.table_name))
          /\ loc.results \in QueryResults(tables[FQ(loc.table_name)], PreviewLimit)
    /\ (pc = "done" /\ loc.ra_start > 0 /\ ~Has(tables, FQ(loc.table_name)))
       => /\ \A i \in 1..Len(RunAnalysisCalls) :
                RunAnalysisCalls[i].op \notin {"query", "query_into"}
          /\ (\E i \in 1..Len(RunAnalysisCalls) : RunAnalysisCalls[i].op = "get_table")
             => resp.error = "table not found"

\* The preview query has read the base table although the analysis table
\* exists and holds other rows.
C7_Witness ==
    /\ pc = "ra_upload"
    /\ Has(tables, FQ(loc.table_name \o S_analysis))
    /\ tables[FQ(loc.table_name \o S_analysis)] # tables[FQ(loc.table_name)]
    /\ calls[Len(calls) - 1].target = FQ(loc.table_name)

\* The step of run_analysis a call belongs to
StepOf(c) ==
    CASE c.op \in {"get_dataset", "create_dataset"} -> 1
      [] c.op = "get_table" -> 2
      [] c.op = "query" -> 3
      [] c.op = "upload" -> 4
      [] OTHER -> 5

RunAnalysisReturned ==
    \/ pc \in {"index_ok", "download_bq_query"}
    \/ /\ pc = "done"
       /\ loc.ra_start > 0
       /\ \/ req.route = "index" /\ resp.status = 200
          \/ \E i \in 1..Len(calls) : calls[i].op = "query_analysis"

\* C8: the calls of run_analysis come in the order ensure dataset, get table,
\* preview query, upload of the CSV, overwrite of the analysis table; a call
\* is made only after the step before it succeeded; the function returns only
\* after all five succeeded; and while no upload (no overwrite) of this call
\* has succeeded the CSV artifact (the analysis table) is as it was on entry.
C8_StepsInOrder ==
    LET ra == RunAnalysisCalls
        n == Len(ra)
        artifact == IF Has(blobs, ResultsPath(loc.table_name))
                    THEN blobs[ResultsPath(loc.table_name)] ELSE NoContent
    IN  loc.ra_start > 0
        => /\ n > 0 => ra[1].op = "get_dataset"
           /\ \A i \in 2..n :
                \/ /\ StepOf(ra[i]) = StepOf(ra[i - 1]) + 1
                   /\ ra[i - 1].ok
                   /\ ra[i].op # "create_dataset"
                \/ /\ ra[i].op = "create_dataset"
                   /\ ra[i - 1].op = "get_dataset"
                   /\ ~ra[i - 1].ok
           /\ RunAnalysisReturned => n >= 5 /\ ra[n].op = "query_into" /\ ra[n].ok
           /\ (\A i \in 1..n : ~(ra[i].op = "upload" /\ ra[i].ok)) => artifact = loc.ra_csv
           /\ (\A i \in 1..n : ~(ra[i].op = "query_into" /\ ra[i].ok))
              => Rows(tables, FQ(loc.table_name \o S_analysis)) = loc.ra_rows

\* run_analysis has ended with "table not found" for a table that does not
\* exist, in a dataset that does.
C8_Witness ==
    /\ pc = "done"
    /\ req.route = "download_bq"
    /\ loc.ra_start > 0
    /\ datasetExists
    /\ ~Has(tables, FQ(loc.table_name))
    /\ resp.error = "table not found"
    /\ RunAnalysisCalls[Len(RunAnalysisCalls)].op = "get_table"

\* C9 (as claimed): two consecutive completed runs of run_analysis on a table,
\* with no load of that table between them, leave the same CSV artifact (same
\* rows, same order) and an analysis table of the same row count.
C9_SameArtifactTwice ==
    \A t \in DOMAIN hist : Len(hist[t]) = 2 => hist[t][1] = hist[t][2]

ExpectedViewId(t, rid) ==
    <<"data-analysis-webapp", ".", "analysis_dataset", ".">> \o t \o <<"_", "_", rid, "_", "v">>
ExpectedViewBody(t, rid) ==
    <<"SELECT", rid, "FROM", "data-analysis-webapp", ".", "analysis_dataset", ".">>
    \o t \o <<"GROUP BY", rid>>
PublishReturned ==
    pc = "done" /\ req.route = "publish_looker_views" /\ resp.status = 200

\* C10: whenever publish_looker_views_for_table returns, for the first time or
\* again, the mapping it returns has one entry per catalog report, rid to
\* <project>.<dataset>.<table>__<rid>_v, and the warehouse holds exactly one
\* view of that id, whose body is the catalog SQL over the base table.
C10_PublishIdempotent ==
    PublishReturned
    => /\ loc.created = {[rid |-> r, view |-> ExpectedViewId(req.table, r)] : r \in REPORTS}
       /\ Cardinality(loc.created) = 5
       /\ \A r \in REPORTS :
            /\ Cardinality({v \in views : v.id = ExpectedViewId(req.table, r)}) = 1
            /\ \A v \in views :
                 v.id = ExpectedViewId(req.table, r) => v.sql = ExpectedViewBody(req.table, r)

\* The second publication for a table: every view was found and updated.
C10_Witness ==
    /\ PublishReturned
    /\ Cardinality(views) = 5
    /\ \A r \in REPORTS :
         \E i \in 1..Len(calls) :
            /\ calls[i].op = "update_table"
            /\ calls[i].ok
            /\ calls[i].target = ExpectedViewId(req.table, r)

----------------------------------------------------------------------------
(* Concurrent create-if-absent *)

Helpers == {"ensure_dataset_exists", "create_table_from_csv_if_not_exists"}

\* Both workers are in the helper fn, both lookups found the resource absent
\* and both went on to ask for its creation.
BothAttempted(fn) ==
    \A w \in Workers :
        /\ workers[w].fn = fn
        /\ workers[w].absent
        /\ workers[w].attempted
NoFault == \A w \in Workers : ~workers[w].fault
AllReturned == \A w \in Workers : workers[w].pc = "returned"

\* C11: when two concurrent calls of ensure_dataset_exists (or of
\* create_table_from_csv_if_not_exists) for the same resource both find it
\* absent and both attempt the creation, and no service fails otherwise,
\* both calls return: neither raises.
C11_BothCreatorsSucceed ==
    \A fn \in Helpers : (BothAttempted(fn) /\ NoFault) => AllReturned

\* The table half alone.  Both loaders return: a load job meets no
\* already-exists error (TableCreatorsReturn holds).  The second load
\* appends, so the table does not hold the CSV's rows once (TableLoadedOnce
\* does not hold).
TableCreatorsReturn ==
    (BothAttempted("create_table_from_csv_if_not_exists") /\ NoFault) => AllReturned
TableLoadedOnce ==
    (BothAttempted("create_table_from_csv_if_not_exists") /\ NoFault)
        => Rows(tables, FQ(T_ab)) = SmallRows

----------------------------------------------------------------------------
(* The request boundary *)

\* C12: in every route handler every failure (a warehouse, object-store or
\* pub/sub call failing, a request value that does not parse) is caught
\* inside the handler and answered; no exception leaves a handler.
C12_NoFaultEscapes == ~resp.unhandled

====
